---- MODULE Spec2Model ----
(***************************************************************************)
(* Harvest -> Kimai transfer tool: the local store (time_entries, tasks,   *)
(* tasks_kimai), the entry reconciler (Storage.storeHarvestEntries), the   *)
(* task matcher (Storage.matchTasksWithActivities) and the transfer engine *)
(* (KimaiImporter.importTimeEntries / transformEntry).                     *)
(*                                                                         *)
(* Conventions of the encoding                                             *)
(*  - an instant (a JS Date's time value) is a number of minutes since the *)
(*    epoch, UTC; a calendar date string "YYYY-MM-DD" is its day number;   *)
(*  - a nullable column or field is <<>> (NULL / null) or <<v>>;           *)
(*  - a text is a sequence of one-character strings, '' is <<>>;           *)
(*  - entry.hours is held in units of 1/120 hour, so that hours * 60 is a  *)
(*    number of half minutes and Math.round has something to round;        *)
(*  - a numeric id column holds the integer whose decimal text the code    *)
(*    stores (toString / parseInt are exact on it).                        *)
(***************************************************************************)
EXTENDS Integers, Sequences, FiniteSets, TLC

VARIABLES
  tz,              \* the machine's local time zone (process environment)
  time_entries,    \* table time_entries, in rowid order
  tasks,           \* table tasks, in rowid order
  tasks_kimai,     \* table tasks_kimai, in rowid order
  kimai,           \* the destination's timesheets, in creation order
  faults,          \* number of I/O failures injected so far
  pc,              \* importTimeEntries: "idle" or "loop"
  entries,         \* importTimeEntries: the sorted pending rows
  idx,             \* importTimeEntries: position of the for-of loop
  dateEndTimeMap,  \* importTimeEntries: date -> latest derived end time
  imported,        \* importTimeEntries: counter
  failed,          \* importTimeEntries: counter
  pushed,          \* the createTimesheet calls of the current run, in order
  ex_pc,           \* extractTimeEntries: "idle", "fetched" or "stored"
  ex_entries,      \* extractTimeEntries: the batch returned by getTimeEntries
  repeat,          \* the batch is the one the invocation before fetched
  storeResult,     \* extractTimeEntries: what storeHarvestEntries resolved
  existingEntries, \* storeHarvestEntries: the rows its SELECT returned
  tk_pc,           \* extractTasks: "idle", "tasks", "activities", "matched",
                   \* "rematched" or "returned"
  fetchedTasks,    \* extractTasks: the list getTasks returned
  fetchedActivities, \* extractTasks: the list getActivities returned
  matchResult,     \* extractTasks: what matchTasksWithActivities resolved
  firstMatch,      \* table tasks as the first matching call left it
  proc             \* the command process in progress: its command, its place
                   \* in main, whether its Storage was constructed, whether
                   \* Storage.close was called, its exit code

vars == <<tz, time_entries, tasks, tasks_kimai, kimai, faults, pc, entries, idx,
          dateEndTimeMap, imported, failed, pushed, ex_pc, ex_entries, repeat,
          storeResult, existingEntries, tk_pc, fetchedTasks, fetchedActivities,
          matchResult, firstMatch, proc>>

importVars == <<pc, entries, idx, dateEndTimeMap, imported, failed, pushed>>
extractVars == <<ex_pc, ex_entries, repeat, storeResult, existingEntries>>
taskVars == <<tk_pc, fetchedTasks, fetchedActivities, matchResult, firstMatch>>

-----------------------------------------------------------------------------
(* Bounds *)

\* number of distinct source entry ids
MaxEntries == 2
\* longest batch returned by one fetch of source entries
MaxBatch == 2
\* number of injected I/O failures (push, mark-imported, row write)
MaxFaults == 1

-----------------------------------------------------------------------------
(* JavaScript values *)

NULL == <<>>

\* JS truthiness of a nullable value / of a text
Truthy(x) == x # <<>>

\* x || d
OrElse(x, d) == IF Truthy(x) THEN x ELSE d

MinutesPerDay == 24 * 60

\* Math.round on a number of half units: nearest integer, ties towards +infinity
MathRound(halves) == (halves + 1) \div 2

-----------------------------------------------------------------------------
(* JavaScript Date in the zone z = [before, after, at]: local offset        *)
(* z.before minutes ahead of UTC until instant z.at, z.after from then on   *)
(* (a zone without clock change has before = after).                        *)

OffsetAt(z, t) == IF t < z.at THEN z.before ELSE z.after

\* LocalTime(t) of ECMAScript
LocalTime(z, t) == t + OffsetAt(z, t)

\* UTC(tlocal) of ECMAScript: a repeated or skipped local time is read with
\* the offset before the transition
UTC(z, l) ==
  IF l - z.before < z.at THEN l - z.before
  ELSE IF l - z.after >= z.at THEN l - z.after
  ELSE l - z.before

\* new Date("YYYY-MM-DD"): a date-only string is midnight UTC
ParseDate(d) == d * MinutesPerDay

\* the triple getFullYear(), getMonth(), getDate(): the local calendar day
LocalDay(z, t) == LocalTime(z, t) \div MinutesPerDay

\* d.setHours(h, 0, 0, 0): h o'clock local time on d's local calendar day
SetHours(z, t, h) == UTC(z, LocalDay(z, t) * MinutesPerDay + h * 60)

\* d.setMinutes(d.getMinutes() + n): local wall clock moved by n minutes
SetMinutes(z, t, n) == UTC(z, LocalTime(z, t) + n)

\* dateEndTimeMap.set(k, v)
MapSet(m, k, v) == [x \in (DOMAIN m) \cup {k} |-> IF x = k THEN v ELSE m[x]]

EmptyMap == [x \in {} |-> 0]

-----------------------------------------------------------------------------
(* KimaiImporter.transformEntry *)

\* the begin-time rule: created_at on the entry's date, else chaining from the
\* date's last end time, else 09:00 local
BeginTime(z, entry, map) ==
  LET fallback == IF entry.date \in DOMAIN map
                  THEN map[entry.date]
                  ELSE SetHours(z, ParseDate(entry.date), 9)
  IN IF Truthy(entry.created_at)
     THEN LET createdAtDate == entry.created_at[1]
              dateObj == ParseDate(entry.date)
              sameDate == LocalDay(z, createdAtDate) = LocalDay(z, dateObj)
          IN IF sameDate THEN createdAtDate ELSE fallback
     ELSE fallback

\* parseInt(text, 10): <<n>> for the decimal text of n, <<>> (NaN) for null
ParseInt(text) == IF Truthy(text) THEN <<text[1]>> ELSE <<>>

\* lines 126-127
EndTime(z, entry, beginTime) == SetMinutes(z, beginTime, MathRound(entry.hours))

\* the object sent to the destination, and the map after the call
TransformEntry(z, entry, map) ==
  LET beginTime == BeginTime(z, entry, map)
      endTime == EndTime(z, entry, beginTime)
  IN [kimaiEntry |-> [begin |-> beginTime,
                      end |-> endTime,
                      description |-> OrElse(entry.notes, <<>>),
                      project |-> ParseInt(entry.kimai_project_id),
                      activity |-> ParseInt(entry.kimai_activity_id)],
      map |-> MapSet(map, entry.date, endTime)]

-----------------------------------------------------------------------------
(* Storage.getAllPendingEntries: time_entries LEFT JOIN tasks ON task = name *)
(* WHERE imported = 0                                                        *)

Joined(row, rowid, p, a) ==
  [rowid |-> rowid, harvest_id |-> row.harvest_id, kimai_id |-> row.kimai_id,
   date |-> row.date, task |-> row.task, notes |-> row.notes, hours |-> row.hours,
   created_at |-> row.created_at, imported |-> row.imported,
   kimai_project_id |-> p, kimai_activity_id |-> a]

RECURSIVE JoinTasks(_, _, _, _)
JoinTasks(row, rowid, ts, k) ==
  IF k > Len(ts) THEN <<>>
  ELSE (IF ts[k].name = row.task
        THEN <<Joined(row, rowid, ts[k].kimai_project_id, ts[k].kimai_activity_id)>>
        ELSE <<>>) \o JoinTasks(row, rowid, ts, k + 1)

LeftJoin(row, rowid, ts) ==
  LET m == JoinTasks(row, rowid, ts, 1)
  IN IF m = <<>> THEN <<Joined(row, rowid, NULL, NULL)>> ELSE m

\* a WHERE clause that lets every row through
SelectedMut(row) == TRUE

\* WHERE te.imported = 0
Selected(row) == row.imported = 0

RECURSIVE PendingFrom(_, _, _)
PendingFrom(te, ts, i) ==
  IF i > Len(te) THEN <<>>
  ELSE (IF Selected(te[i]) THEN LeftJoin(te[i], i, ts) ELSE <<>>)
       \o PendingFrom(te, ts, i + 1)

GetAllPendingEntries(te, ts) == PendingFrom(te, ts, 1)

-----------------------------------------------------------------------------
(* entries.sort((a, b) => new Date(a.date) - new Date(b.date)): Array.sort   *)
(* is stable                                                                 *)

Compare(a, b) == ParseDate(a.date) - ParseDate(b.date)

RECURSIVE InsertSorted(_, _)
InsertSorted(s, x) ==
  IF s = <<>> THEN <<x>>
  ELSE IF Compare(s[Len(s)], x) > 0
       THEN Append(InsertSorted(SubSeq(s, 1, Len(s) - 1), x), s[Len(s)])
       ELSE Append(s, x)

RECURSIVE SortFrom(_, _, _)
SortFrom(s, acc, i) ==
  IF i > Len(s) THEN acc ELSE SortFrom(s, InsertSorted(acc, s[i]), i + 1)

\* the rows left in the order the store returned them
SortByDateMut(s) == s

\* line 32
SortByDate(s) == SortFrom(s, <<>>, 1)

-----------------------------------------------------------------------------
(* Storage.markAsImported: UPDATE time_entries SET imported = 1, kimai_id    *)
(* WHERE harvest_id = ?                                                      *)

\* an UPDATE that sets the flag and leaves kimai_id alone
MarkAsImportedMut(te, harvestId, kimaiId) ==
  [i \in 1..Len(te) |->
     IF te[i].harvest_id = harvestId
     THEN [te[i] EXCEPT !.imported = 1]
     ELSE te[i]]

\* lines 708-723
MarkAsImported(te, harvestId, kimaiId) ==
  [i \in 1..Len(te) |->
     IF te[i].harvest_id = harvestId
     THEN [te[i] EXCEPT !.imported = 1, !.kimai_id = <<kimaiId>>]
     ELSE te[i]]

-----------------------------------------------------------------------------
(* The command process: main of harvest-extract and of kimai-import *)

\* no command process is followed
NoProcess ==
  [cmd |-> "none", pc |-> "none", opened |-> FALSE, closed |-> FALSE, code |-> NULL]

\* the awaited call returns to main
Returned(p) == IF p.pc = "running" THEN [p EXCEPT !.pc = "returned"] ELSE p

\* the awaited call throws into the catch block of main
Thrown(p) == IF p.pc = "running" THEN [p EXCEPT !.pc = "catch"] ELSE p

\* Storage.close: db.close is called
Close(p) == [p EXCEPT !.closed = TRUE]

\* process.exit(code)
Exit(p, code) == [p EXCEPT !.pc = "exited", !.code = <<code>>]

-----------------------------------------------------------------------------
(* KimaiImporter.importTimeEntries *)

\* a skip test that wants both ids missing
MissingMappingMut(entry) ==
  ~Truthy(entry.kimai_project_id) /\ ~Truthy(entry.kimai_activity_id)

\* the skip test: !entry.kimai_project_id || !entry.kimai_activity_id
MissingMapping(entry) ==
  ~Truthy(entry.kimai_project_id) \/ ~Truthy(entry.kimai_activity_id)

\* the record kept of one createTimesheet call
Call(entry, k, map, ok) ==
  [harvest_id |-> entry.harvest_id, rowid |-> entry.rowid, date |-> entry.date,
   created_at |-> entry.created_at, hours |-> entry.hours,
   begin |-> k.begin, end |-> k.end,
   chained |-> IF entry.date \in DOMAIN map THEN <<map[entry.date]>> ELSE NULL,
   ok |-> ok]

\* the timesheet the destination creates from a posted entry
Timesheet(entry, k) ==
  [harvest_id |-> entry.harvest_id, date |-> entry.date, begin |-> k.begin,
   end |-> k.end, description |-> k.description, project |-> k.project,
   activity |-> k.activity]

\* lines 23-29: nothing pending, return 0
ImportNothing ==
  /\ pc = "idle" /\ ex_pc = "idle" /\ tk_pc = "idle"
  /\ GetAllPendingEntries(time_entries, tasks) = <<>>
  /\ proc' = Returned(proc)
  /\ UNCHANGED <<tz, time_entries, tasks, tasks_kimai, kimai, faults, importVars,
                 extractVars, taskVars>>

\* lines 23-38: read the pending rows, sort them, reset the run's state
ImportBegin ==
  /\ pc = "idle" /\ ex_pc = "idle" /\ tk_pc = "idle"
  /\ GetAllPendingEntries(time_entries, tasks) # <<>>
  /\ entries' = SortByDate(GetAllPendingEntries(time_entries, tasks))
  /\ pc' = "loop"
  /\ idx' = 1
  /\ imported' = 0
  /\ failed' = 0
  /\ dateEndTimeMap' = EmptyMap
  /\ pushed' = <<>>
  /\ UNCHANGED <<proc, tz, time_entries, tasks, tasks_kimai, kimai, faults, extractVars, taskVars>>

\* lines 43-46: an entry without mapping is skipped
ImportSkip ==
  /\ pc = "loop" /\ idx <= Len(entries)
  /\ MissingMapping(entries[idx])
  /\ idx' = idx + 1
  /\ UNCHANGED <<proc, tz, time_entries, tasks, tasks_kimai, kimai, faults, pc, entries,
                 dateEndTimeMap, imported, failed, pushed, extractVars, taskVars>>

\* lines 49-59: transform, push, mark imported
ImportEntry ==
  /\ pc = "loop" /\ idx <= Len(entries)
  /\ ~MissingMapping(entries[idx])
  /\ LET entry == entries[idx]
         t == TransformEntry(tz, entry, dateEndTimeMap)
     IN /\ dateEndTimeMap' = t.map
        /\ kimai' = Append(kimai, Timesheet(entry, t.kimaiEntry))
        /\ pushed' = Append(pushed, Call(entry, t.kimaiEntry, dateEndTimeMap, TRUE))
        /\ time_entries' = MarkAsImported(time_entries, entry.harvest_id, Len(kimai) + 1)
  /\ imported' = imported + 1
  /\ idx' = idx + 1
  /\ UNCHANGED <<proc, tz, tasks, tasks_kimai, faults, pc, entries, failed, extractVars, taskVars>>

\* a failed push that ends the loop instead of going on to the next entry
ImportPushFailsMut ==
  /\ pc = "loop" /\ idx <= Len(entries)
  /\ ~MissingMapping(entries[idx])
  /\ faults < MaxFaults
  /\ faults' = faults + 1
  /\ LET entry == entries[idx]
         t == TransformEntry(tz, entry, dateEndTimeMap)
     IN /\ dateEndTimeMap' = t.map
        /\ pushed' = Append(pushed, Call(entry, t.kimaiEntry, dateEndTimeMap, FALSE))
  /\ failed' = failed + 1
  /\ idx' = Len(entries) + 1
  /\ UNCHANGED <<proc, tz, time_entries, tasks, tasks_kimai, kimai, pc, entries, imported,
                 extractVars, taskVars>>

\* a failed push that takes its end time back out of the map
ImportPushFailsNoMap ==
  /\ pc = "loop" /\ idx <= Len(entries)
  /\ ~MissingMapping(entries[idx])
  /\ faults < MaxFaults
  /\ faults' = faults + 1
  /\ LET entry == entries[idx]
         t == TransformEntry(tz, entry, dateEndTimeMap)
     IN pushed' = Append(pushed, Call(entry, t.kimaiEntry, dateEndTimeMap, FALSE))
  /\ failed' = failed + 1
  /\ idx' = idx + 1
  /\ UNCHANGED <<proc, tz, time_entries, tasks, tasks_kimai, kimai, pc, entries, imported,
                 dateEndTimeMap, extractVars, taskVars>>

\* lines 49-54, 60-63: createTimesheet throws
ImportPushFails ==
  /\ pc = "loop" /\ idx <= Len(entries)
  /\ ~MissingMapping(entries[idx])
  /\ faults < MaxFaults
  /\ faults' = faults + 1
  /\ LET entry == entries[idx]
         t == TransformEntry(tz, entry, dateEndTimeMap)
     IN /\ dateEndTimeMap' = t.map
        /\ pushed' = Append(pushed, Call(entry, t.kimaiEntry, dateEndTimeMap, FALSE))
  /\ failed' = failed + 1
  /\ idx' = idx + 1
  /\ UNCHANGED <<proc, tz, time_entries, tasks, tasks_kimai, kimai, pc, entries, imported,
                 extractVars, taskVars>>

\* lines 49-57, 60-63: the timesheet is created, markAsImported rejects
ImportMarkFails ==
  /\ pc = "loop" /\ idx <= Len(entries)
  /\ ~MissingMapping(entries[idx])
  /\ faults < MaxFaults
  /\ faults' = faults + 1
  /\ LET entry == entries[idx]
         t == TransformEntry(tz, entry, dateEndTimeMap)
     IN /\ dateEndTimeMap' = t.map
        /\ kimai' = Append(kimai, Timesheet(entry, t.kimaiEntry))
        /\ pushed' = Append(pushed, Call(entry, t.kimaiEntry, dateEndTimeMap, TRUE))
  /\ failed' = failed + 1
  /\ idx' = idx + 1
  /\ UNCHANGED <<proc, tz, time_entries, tasks, tasks_kimai, pc, entries, imported,
                 extractVars, taskVars>>

\* lines 66-67: the loop is over; the call returns the counter imported and
\* its locals are gone
ImportFinish ==
  /\ pc = "loop" /\ idx > Len(entries)
  /\ pc' = "idle"
  /\ entries' = <<>>
  /\ idx' = 1
  /\ dateEndTimeMap' = EmptyMap
  /\ imported' = 0
  /\ failed' = 0
  /\ pushed' = <<>>
  /\ proc' = Returned(proc)
  /\ UNCHANGED <<tz, time_entries, tasks, tasks_kimai, kimai, faults, extractVars, taskVars>>

-----------------------------------------------------------------------------
(* Storage.storeHarvestEntries *)

\* entry.client?.name || ''  (likewise project, task)
NameOf(obj) == IF obj = NULL THEN <<>> ELSE OrElse(obj[1], <<>>)

\* entry.notes || '': the note of a source entry is null or <<text>>
NotesOf(entry) == IF entry.notes = NULL THEN <<>> ELSE OrElse(entry.notes[1], <<>>)

\* existingEntriesMap.get(harvestId): <<row>> or NULL (harvest_id is UNIQUE)
Existing(te, harvestId) ==
  LET S == {i \in 1..Len(te) : te[i].harvest_id = harvestId}
  IN IF S = {} THEN NULL ELSE <<te[CHOOSE i \in S : TRUE]>>

\* a comparison that reads entry.date, a field a source entry does not have,
\* where the code reads entry.spent_date
HasChangedMut(existing, entry) ==
  \/ TRUE
  \/ existing.client # NameOf(entry.client)
  \/ existing.project # NameOf(entry.project)
  \/ existing.task # NameOf(entry.task)
  \/ existing.notes # NotesOf(entry)
  \/ existing.hours # entry.hours
  \/ existing.started_time # entry.started_time
  \/ existing.ended_time # entry.ended_time

\* lines 179-187
HasChanged(existing, entry) ==
  \/ existing.date # entry.spent_date
  \/ existing.client # NameOf(entry.client)
  \/ existing.project # NameOf(entry.project)
  \/ existing.task # NameOf(entry.task)
  \/ existing.notes # NotesOf(entry)
  \/ existing.hours # entry.hours
  \/ existing.started_time # entry.started_time
  \/ existing.ended_time # entry.ended_time

\* a classification that takes every stored entry for changed
ClassifyMut(te, entry) ==
  IF ~Truthy(Existing(te, entry.id)) THEN "new" ELSE "changed"

\* lines 171-195: "new", "changed" or "unchanged", against the rows read at
\* the start of the call
Classify(te, entry) ==
  LET existing == Existing(te, entry.id)
  IN IF ~Truthy(existing) THEN "new"
     ELSE IF HasChanged(existing[1], entry) THEN "changed"
     ELSE "unchanged"

\* newEntries / updatedEntries / unchangedEntries, as positions of the batch
Classified(te, batch, kind) ==
  LET Test(i) == Classify(te, batch[i]) = kind
  IN SelectSeq([i \in 1..Len(batch) |-> i], Test)

\* lines 209-229: the inserted row (imported DEFAULT 0, kimai_id NULL)
NewRow(entry, now) ==
  [harvest_id |-> entry.id, kimai_id |-> NULL, date |-> entry.spent_date,
   client |-> NameOf(entry.client), project |-> NameOf(entry.project),
   task |-> NameOf(entry.task), notes |-> NotesOf(entry),
   hours |-> entry.hours, started_time |-> entry.started_time,
   ended_time |-> entry.ended_time, imported |-> 0,
   created_at |-> OrElse(entry.created_at, <<now>>)]

\* an update that writes the row anew, as pending
UpdateRowMut(te, entry) ==
  [i \in 1..Len(te) |->
     IF te[i].harvest_id = entry.id
     THEN [te[i] EXCEPT !.date = entry.spent_date,
                        !.client = NameOf(entry.client),
                        !.project = NameOf(entry.project),
                        !.task = NameOf(entry.task),
                        !.notes = NotesOf(entry),
                        !.hours = entry.hours,
                        !.started_time = entry.started_time,
                        !.ended_time = entry.ended_time,
                        !.imported = 0,
                        !.kimai_id = NULL]
     ELSE te[i]]

\* lines 269-289: UPDATE ... WHERE harvest_id = ?
UpdateRow(te, entry) ==
  [i \in 1..Len(te) |->
     IF te[i].harvest_id = entry.id
     THEN [te[i] EXCEPT !.date = entry.spent_date,
                        !.client = NameOf(entry.client),
                        !.project = NameOf(entry.project),
                        !.task = NameOf(entry.task),
                        !.notes = NotesOf(entry),
                        !.hours = entry.hours,
                        !.started_time = entry.started_time,
                        !.ended_time = entry.ended_time]
     ELSE te[i]]

\* inserts that pass over a duplicate harvest_id without counting it
RECURSIVE InsertAllMut(_, _, _, _, _, _)
InsertAllMut(acc, batch, new, failing, now, k) ==
  IF k > Len(new) THEN acc
  ELSE LET entry == batch[new[k]]
       IN InsertAllMut(IF new[k] \in failing
                       THEN [acc EXCEPT !.errors = @ + 1]
                       ELSE IF Truthy(Existing(acc.table, entry.id))
                       THEN acc
                       ELSE [acc EXCEPT !.table = Append(@, NewRow(entry, now)),
                                        !.count = @ + 1],
                       batch, new, failing, now, k + 1)

\* inserts into a table whose harvest_id column is not UNIQUE
RECURSIVE InsertAllNoKey(_, _, _, _, _, _)
InsertAllNoKey(acc, batch, new, failing, now, k) ==
  IF k > Len(new) THEN acc
  ELSE LET entry == batch[new[k]]
       IN InsertAllNoKey(IF new[k] \in failing
                         THEN [acc EXCEPT !.errors = @ + 1]
                         ELSE [acc EXCEPT !.table = Append(@, NewRow(entry, now)),
                                          !.count = @ + 1],
                         batch, new, failing, now, k + 1)

\* lines 215-243: the inserts, in order; a row fails when the write fails or
\* harvest_id is already present (UNIQUE)
RECURSIVE InsertAll(_, _, _, _, _, _)
InsertAll(acc, batch, new, failing, now, k) ==
  IF k > Len(new) THEN acc
  ELSE LET entry == batch[new[k]]
           err == new[k] \in failing \/ Truthy(Existing(acc.table, entry.id))
       IN InsertAll(IF err
                    THEN [acc EXCEPT !.errors = @ + 1]
                    ELSE [acc EXCEPT !.table = Append(@, NewRow(entry, now)),
                                     !.count = @ + 1],
                    batch, new, failing, now, k + 1)

\* updates that stop at the first row whose write fails
RECURSIVE UpdateAllMut(_, _, _, _, _)
UpdateAllMut(acc, batch, upd, failing, k) ==
  IF k > Len(upd) THEN acc
  ELSE LET entry == batch[upd[k]]
       IN IF upd[k] \in failing
          THEN [acc EXCEPT !.errors = @ + 1]
          ELSE UpdateAllMut([acc EXCEPT !.table = UpdateRow(@, entry),
                                        !.count = @ + 1],
                            batch, upd, failing, k + 1)

\* lines 276-303: the updates, in order
RECURSIVE UpdateAll(_, _, _, _, _)
UpdateAll(acc, batch, upd, failing, k) ==
  IF k > Len(upd) THEN acc
  ELSE LET entry == batch[upd[k]]
       IN UpdateAll(IF upd[k] \in failing
                    THEN [acc EXCEPT !.errors = @ + 1]
                    ELSE [acc EXCEPT !.table = UpdateRow(@, entry),
                                     !.count = @ + 1],
                    batch, upd, failing, k + 1)

\* lines 171-332: the classification against the rows existing that the
\* SELECT returned, then the writes on the table te as it is by then; the
\* table afterwards and the resolved counts
StoreEntriesOn(existing, te, batch, failing, now) ==
  LET newEntries == Classified(existing, batch, "new")
      updatedEntries == Classified(existing, batch, "changed")
      unchangedEntries == Classified(existing, batch, "unchanged")
      ins == InsertAll([table |-> te, count |-> 0, errors |-> 0],
                       batch, newEntries, failing, now, 1)
      upd == UpdateAll([table |-> ins.table, count |-> 0, errors |-> 0],
                       batch, updatedEntries, failing, 1)
  IN IF Len(batch) = 0
     THEN [table |-> te, inserted |-> 0, updated |-> 0, unchanged |-> 0,
           insertErrors |-> 0, updateErrors |-> 0]
     ELSE IF Len(updatedEntries) > 0
     THEN [table |-> upd.table, inserted |-> ins.count, updated |-> upd.count,
           unchanged |-> Len(unchangedEntries),
           insertErrors |-> ins.errors, updateErrors |-> upd.errors]
     ELSE IF Len(newEntries) > 0
     THEN [table |-> ins.table, inserted |-> ins.count, updated |-> 0,
           unchanged |-> Len(unchangedEntries),
           insertErrors |-> ins.errors, updateErrors |-> 0]
     ELSE [table |-> te, inserted |-> 0, updated |-> 0,
           unchanged |-> Len(unchangedEntries),
           insertErrors |-> 0, updateErrors |-> 0]

\* the whole call when no other invocation writes between its SELECT and its
\* writes
StoreEntries(te, batch, failing, now) == StoreEntriesOn(te, te, batch, failing, now)

\* the positions of the batch that are written (inserted or updated)
Written(te, batch) ==
  {i \in 1..Len(batch) : Classify(te, batch[i]) # "unchanged"}

-----------------------------------------------------------------------------
(* HarvestExtractor.extractTimeEntries *)

\* line 27: getTimeEntries returned the batch
FetchEntries(batch) ==
  /\ pc = "idle" /\ ex_pc = "idle" /\ tk_pc = "idle"
  /\ ex_pc' = "fetched"
  /\ ex_entries' = batch
  /\ UNCHANGED <<proc, tz, time_entries, tasks, tasks_kimai, kimai, faults, importVars, taskVars, existingEntries,
                 repeat, storeResult>>

\* lines 36-42 and 27 of the next invocation: the invocation returns, the
\* tool is run again and getTimeEntries returns the identical batch
FetchEntriesAgain ==
  /\ pc = "idle" /\ ex_pc = "stored" /\ ~repeat
  /\ ex_pc' = "fetched"
  /\ repeat' = TRUE
  /\ UNCHANGED <<proc, tz, time_entries, tasks, tasks_kimai, kimai, faults, importVars, taskVars, existingEntries,
                 ex_entries, storeResult>>

\* line 33: storeHarvestEntries(entries); the writes of the positions in
\* failing fail, now is the clock read for a missing created_at
StoreHarvestEntries(failing, now) ==
  /\ ex_pc = "fetched"
  /\ failing \subseteq Written(time_entries, ex_entries)
  /\ faults + Cardinality(failing) <= MaxFaults
  /\ faults' = faults + Cardinality(failing)
  /\ LET r == StoreEntries(time_entries, ex_entries, failing, now)
     IN /\ time_entries' = r.table
        /\ storeResult' = [inserted |-> r.inserted, updated |-> r.updated,
                           unchanged |-> r.unchanged,
                           errors |-> r.insertErrors + r.updateErrors]
  /\ ex_pc' = "stored"
  /\ UNCHANGED <<proc, tz, tasks, tasks_kimai, kimai, importVars, taskVars, existingEntries, ex_entries, repeat>>

\* storeHarvestEntries lines 149-164: the SELECT of the existing rows
ReadExisting ==
  /\ ex_pc = "fetched"
  /\ ex_pc' = "read"
  /\ existingEntries' = time_entries
  /\ UNCHANGED <<proc, tz, time_entries, tasks, tasks_kimai, kimai, faults, importVars,
                 taskVars, ex_entries, repeat, storeResult>>

\* storeHarvestEntries lines 166-332: classification against the rows read,
\* then the inserts and updates
WriteEntries(failing, now) ==
  /\ ex_pc = "read"
  /\ failing \subseteq Written(existingEntries, ex_entries)
  /\ faults + Cardinality(failing) <= MaxFaults
  /\ faults' = faults + Cardinality(failing)
  /\ LET r == StoreEntriesOn(existingEntries, time_entries, ex_entries, failing, now)
     IN /\ time_entries' = r.table
        /\ storeResult' = [inserted |-> r.inserted, updated |-> r.updated,
                           unchanged |-> r.unchanged,
                           errors |-> r.insertErrors + r.updateErrors]
  /\ ex_pc' = "stored"
  /\ UNCHANGED <<proc, tz, tasks, tasks_kimai, kimai, importVars, taskVars, ex_entries,
                 repeat, existingEntries>>

\* a second invocation of the extract command, run by another process while
\* this one is between its SELECT and its writes: it stores its own batch
ConcurrentExtract(batch, now) ==
  /\ ex_pc = "read"
  /\ time_entries' = StoreEntries(time_entries, batch, {}, now).table
  /\ UNCHANGED <<proc, tz, tasks, tasks_kimai, kimai, faults, importVars, extractVars,
                 taskVars>>

\* lines 22-42 in one step: fetch, store and return of one invocation
ExtractTimeEntries(batch, failing, now) ==
  /\ pc = "idle" /\ ex_pc = "idle" /\ tk_pc = "idle"
  /\ failing \subseteq Written(time_entries, batch)
  /\ faults + Cardinality(failing) <= MaxFaults
  /\ faults' = faults + Cardinality(failing)
  /\ time_entries' = StoreEntries(time_entries, batch, failing, now).table
  /\ UNCHANGED <<proc, tz, tasks, tasks_kimai, kimai, importVars, extractVars, taskVars>>

NoResult == [inserted |-> 0, updated |-> 0, unchanged |-> 0, errors |-> 0]

\* lines 36-42: the verification read, the summary, the return
ExtractReturn ==
  /\ ex_pc = "stored"
  /\ ex_pc' = "idle"
  /\ ex_entries' = <<>>
  /\ repeat' = FALSE
  /\ storeResult' = NoResult
  /\ existingEntries' = <<>>
  /\ proc' = Returned(proc)
  /\ UNCHANGED <<tz, time_entries, tasks, tasks_kimai, kimai, faults, importVars,
                 taskVars>>

-----------------------------------------------------------------------------
(* Storage.storeTasks, storeKimaiActivities, matchTasksWithActivities *)

\* the rowid SQLite gives an inserted row: one more than the largest
NextId(tbl) ==
  IF tbl = <<>> THEN 1
  ELSE 1 + (CHOOSE m \in {tbl[i].id : i \in 1..Len(tbl)} :
              \A i \in 1..Len(tbl) : tbl[i].id <= m)

\* INSERT OR REPLACE INTO tasks: a row with the same harvest_id (UNIQUE) is
\* deleted first; the mapping columns are written NULL
ReplaceTask(tbl, task) ==
  LET Other(r) == r.harvest_id # task.id
      kept == SelectSeq(tbl, Other)
  IN Append(kept, [id |-> NextId(tbl), harvest_id |-> task.id, name |-> task.name,
                   kimai_project_id |-> NULL, kimai_activity_id |-> NULL,
                   kimai_activity_name |-> NULL])

\* lines 397-426: a task without id is skipped
RECURSIVE StoreTasks(_, _, _)
StoreTasks(tbl, ts, k) ==
  IF k > Len(ts) THEN tbl
  ELSE StoreTasks(IF ts[k].id = 0 THEN tbl ELSE ReplaceTask(tbl, ts[k]), ts, k + 1)

\* a display name that puts the activity's own name first
TaskNameMut(activity) ==
  IF Truthy(activity.parentTitle)
  THEN activity.name \o <<":", " ">> \o activity.parentTitle
  ELSE activity.name

\* line 478: the display name
TaskName(activity) ==
  IF Truthy(activity.parentTitle)
  THEN activity.parentTitle \o <<":", " ">> \o activity.name
  ELSE activity.name

\* lines 461-487: INSERT OR REPLACE INTO tasks_kimai; the table's only key is
\* its own rowid, so every activity adds a row
InsertActivity(tbl, activity) ==
  Append(tbl, [id |-> NextId(tbl),
               kimai_project_id |-> activity.project,
               kimai_activity_id |-> <<activity.id>>,
               task_name |-> TaskName(activity),
               parent_title |-> OrElse(activity.parentTitle, <<>>)])

\* lines 470-502: an activity without id is skipped
RECURSIVE StoreKimaiActivities(_, _, _)
StoreKimaiActivities(tbl, as, k) ==
  IF k > Len(as) THEN tbl
  ELSE StoreKimaiActivities(IF as[k].id = 0 THEN tbl ELSE InsertActivity(tbl, as[k]),
                            as, k + 1)

\* String.prototype.toLowerCase, on the alphabet of the catalogs
ToLowerChar(c) ==
  CASE c = "D" -> "d"
    [] c = "E" -> "e"
    [] c = "V" -> "v"
    [] c = "O" -> "o"
    [] c = "P" -> "p"
    [] c = "S" -> "s"
    [] OTHER -> c

ToLowerCase(s) == [i \in 1..Len(s) |-> ToLowerChar(s[i])]

RECURSIVE TrimStart(_)
TrimStart(s) ==
  IF s # <<>> /\ s[1] = " " THEN TrimStart(Tail(s)) ELSE s

RECURSIVE TrimEnd(_)
TrimEnd(s) ==
  IF s # <<>> /\ s[Len(s)] = " " THEN TrimEnd(SubSeq(s, 1, Len(s) - 1)) ELSE s

\* a trim that strips the leading blanks only
TrimMut(s) == TrimStart(s)

\* String.prototype.trim
Trim(s) == TrimEnd(TrimStart(s))

\* lines 571-573: the test of harvestTasks.find
NamesMatch(task, activity) ==
  ToLowerCase(Trim(task.name)) = ToLowerCase(Trim(activity.task_name))

\* a search that returns the last task whose name matches
FindTaskMut(harvestTasks, activity, k) ==
  LET S == {i \in k..Len(harvestTasks) : NamesMatch(harvestTasks[i], activity)}
  IN IF S = {} THEN NULL
     ELSE <<harvestTasks[CHOOSE i \in S : \A j \in S : j <= i]>>

\* lines 571-573: harvestTasks.find(...): <<task>> or NULL
RECURSIVE FindTask(_, _, _)
FindTask(harvestTasks, activity, k) ==
  IF k > Len(harvestTasks) THEN NULL
  ELSE IF NamesMatch(harvestTasks[k], activity)
       THEN <<harvestTasks[k]>>
       ELSE FindTask(harvestTasks, activity, k + 1)

\* an UPDATE that addresses the tasks by the name of the task found
UpdateTaskMut(tbl, id, activity) ==
  [i \in 1..Len(tbl) |->
     IF \E j \in 1..Len(tbl) : tbl[j].id = id /\ tbl[j].name = tbl[i].name
     THEN [tbl[i] EXCEPT !.kimai_project_id = activity.kimai_project_id,
                         !.kimai_activity_id = activity.kimai_activity_id,
                         !.kimai_activity_name = <<activity.task_name>>]
     ELSE tbl[i]]

\* lines 580-590: UPDATE tasks SET ... WHERE id = ?
UpdateTask(tbl, id, activity) ==
  [i \in 1..Len(tbl) |->
     IF tbl[i].id = id
     THEN [tbl[i] EXCEPT !.kimai_project_id = activity.kimai_project_id,
                         !.kimai_activity_id = activity.kimai_activity_id,
                         !.kimai_activity_name = <<activity.task_name>>]
     ELSE tbl[i]]

\* lines 564-606: one pass over the activities: the UPDATEs it issues, in
\* the order of the activities, and the counters once every UPDATE has
\* called back
RECURSIVE MatchAll(_, _, _, _)
MatchAll(acc, harvestTasks, kimaiActivities, k) ==
  IF k > Len(kimaiActivities) THEN acc
  ELSE LET activity == kimaiActivities[k]
           matchingTask == FindTask(harvestTasks, activity, 1)
       IN MatchAll(IF Truthy(matchingTask)
                   THEN [updates |-> Append(acc.updates,
                                            [id |-> matchingTask[1].id,
                                             activity |-> activity]),
                         matched |-> acc.matched + 1,
                         unmatched |-> acc.unmatched - 1]
                   ELSE acc,
                   harvestTasks, kimaiActivities, k + 1)

\* the pass of a call on the tables ts and ks
MatchPass(ts, ks) ==
  MatchAll([updates |-> <<>>, matched |-> 0, unmatched |-> Len(ts)], ts, ks, 1)

\* the orders in which n statements issued by db.run outside db.serialize
\* may execute: the database runs them in parallel mode
Orders(n) ==
  {f \in [1..n -> 1..n] : \A i, j \in 1..n : f[i] = f[j] => i = j}

\* the orders in which the UPDATEs of a call may execute
UpdateOrders(ts, ks) ==
  IF Len(ks) = 0 \/ Len(ts) = 0 THEN {<<>>}
  ELSE Orders(Len(MatchPass(ts, ks).updates))

\* lines 578-604: the UPDATEs executed in the order given
RECURSIVE ApplyUpdates(_, _, _, _)
ApplyUpdates(tbl, updates, order, k) ==
  IF k > Len(order) THEN tbl
  ELSE ApplyUpdates(UpdateTask(tbl, updates[order[k]].id, updates[order[k]].activity),
                    updates, order, k + 1)

\* the whole call: the tasks table afterwards and the resolved counts
MatchTasksWithActivities(ts, ks, order) ==
  IF Len(ks) = 0 \/ Len(ts) = 0
  THEN [table |-> ts, matched |-> 0, unmatched |-> 0]
  ELSE LET r == MatchPass(ts, ks)
       IN [table |-> ApplyUpdates(ts, r.updates, order, 1),
           matched |-> r.matched, unmatched |-> r.unmatched]

-----------------------------------------------------------------------------
(* HarvestExtractor.extractTasks *)

\* lines 70-122: both fetches return a non-empty list
ExtractTasks(ts, as) ==
  /\ pc = "idle" /\ ex_pc = "idle" /\ tk_pc = "idle"
  /\ ts # <<>> /\ as # <<>>
  /\ LET stored == StoreTasks(<<>>, ts, 1)
         activities == StoreKimaiActivities(<<>>, as, 1)
     IN /\ tasks_kimai' = activities
        /\ \E order \in UpdateOrders(stored, activities) :
             tasks' = MatchTasksWithActivities(stored, activities, order).table
  /\ UNCHANGED <<proc, tz, time_entries, kimai, faults, importVars, extractVars, taskVars>>

\* lines 70-95: the tasks are stored, then getActivities throws or returns
\* an empty list
ExtractTasksNoActivities(ts) ==
  /\ pc = "idle" /\ ex_pc = "idle" /\ tk_pc = "idle"
  /\ ts # <<>>
  /\ tasks' = StoreTasks(<<>>, ts, 1)
  /\ UNCHANGED <<proc, tz, time_entries, tasks_kimai, kimai, faults, importVars, extractVars, taskVars>>

\* matchResult before any call
NoMatch == [matched |-> 0, unmatched |-> 0]

\* lines 70-85: getTasks has returned; an empty list ends the run, any
\* other is stored in the truncated table
FetchTasks(ts) ==
  /\ pc = "idle" /\ ex_pc = "idle" /\ tk_pc = "idle"
  /\ fetchedTasks' = ts
  /\ IF ts = <<>>
     THEN tk_pc' = "returned" /\ tasks' = tasks
     ELSE tk_pc' = "tasks" /\ tasks' = StoreTasks(<<>>, ts, 1)
  /\ UNCHANGED <<proc, tz, time_entries, tasks_kimai, kimai, faults, importVars,
                 extractVars, fetchedActivities, matchResult, firstMatch>>

\* lines 91-106: getActivities has returned; an empty list ends the run, any
\* other is stored in the truncated table
FetchActivities(as) ==
  /\ tk_pc = "tasks"
  /\ fetchedActivities' = as
  /\ IF as = <<>>
     THEN tk_pc' = "returned" /\ tasks_kimai' = tasks_kimai
     ELSE tk_pc' = "activities" /\ tasks_kimai' = StoreKimaiActivities(<<>>, as, 1)
  /\ UNCHANGED <<proc, tz, time_entries, tasks, kimai, faults, importVars, extractVars,
                 fetchedTasks, matchResult, firstMatch>>

\* lines 91, 123-126: getActivities throws and so does the run
FetchActivitiesFails ==
  /\ tk_pc = "tasks"
  /\ faults < MaxFaults
  /\ faults' = faults + 1
  /\ tk_pc' = "idle"
  /\ fetchedTasks' = <<>>
  /\ proc' = Thrown(proc)
  /\ UNCHANGED <<tz, time_entries, tasks, tasks_kimai, kimai, importVars,
                 extractVars, fetchedActivities, matchResult, firstMatch>>

\* line 110: matchTasksWithActivities(), its UPDATEs executing in some order
Match(order) ==
  /\ tk_pc = "activities"
  /\ LET r == MatchTasksWithActivities(tasks, tasks_kimai, order)
     IN /\ tasks' = r.table
        /\ firstMatch' = r.table
        /\ matchResult' = [matched |-> r.matched, unmatched |-> r.unmatched]
  /\ tk_pc' = "matched"
  /\ UNCHANGED <<proc, tz, time_entries, tasks_kimai, kimai, faults, importVars,
                 extractVars, fetchedTasks, fetchedActivities>>

\* matchTasksWithActivities() called once more on the stored catalogs
MatchAgain(order) ==
  /\ tk_pc = "matched"
  /\ LET r == MatchTasksWithActivities(tasks, tasks_kimai, order)
     IN /\ tasks' = r.table
        /\ matchResult' = [matched |-> r.matched, unmatched |-> r.unmatched]
  /\ tk_pc' = "rematched"
  /\ UNCHANGED <<proc, tz, time_entries, tasks_kimai, kimai, faults, importVars,
                 extractVars, fetchedTasks, fetchedActivities, firstMatch>>

\* lines 113-122: the verification reads and the return
TasksReturn ==
  /\ tk_pc \in {"matched", "rematched"}
  /\ tk_pc' = "returned"
  /\ UNCHANGED <<proc, tz, time_entries, tasks, tasks_kimai, kimai, faults, importVars,
                 extractVars, fetchedTasks, fetchedActivities, matchResult,
                 firstMatch>>

\* the command that ran extractTasks exits; its locals are gone
TasksExit ==
  /\ tk_pc = "returned"
  /\ tk_pc' = "idle"
  /\ fetchedTasks' = <<>>
  /\ fetchedActivities' = <<>>
  /\ matchResult' = NoMatch
  /\ firstMatch' = <<>>
  /\ proc' = Returned(proc)
  /\ UNCHANGED <<tz, time_entries, tasks, tasks_kimai, kimai, faults, importVars,
                 extractVars>>

-----------------------------------------------------------------------------
(* main of harvest-extract (bin/harvest-extract.js 53-98) and of            *)
(* kimai-import (119-137)                                                   *)

\* the three commands: --from/--to, --tasks, and the import
Commands == {"entries", "tasks", "import"}

\* the process of the command is at the call that main awaits
Running(cmd) == proc.cmd = cmd /\ proc.pc = "running"

\* lines 57 / 126: the constructor builds the API clients and then the
\* Storage, which opens the database
Construct(cmd) ==
  /\ proc.pc \in {"none", "exited"}
  /\ pc = "idle" /\ ex_pc = "idle" /\ tk_pc = "idle"
  /\ proc' = [cmd |-> cmd, pc |-> "running", opened |-> TRUE, closed |-> FALSE,
              code |-> NULL]
  /\ UNCHANGED <<tz, time_entries, tasks, tasks_kimai, kimai, faults, importVars,
                 extractVars, taskVars>>

\* lines 57 / 126: a credential is missing, the API client's constructor
\* throws before the Storage is constructed
ConstructFails(cmd) ==
  /\ proc.pc \in {"none", "exited"}
  /\ pc = "idle" /\ ex_pc = "idle" /\ tk_pc = "idle"
  /\ faults < MaxFaults
  /\ faults' = faults + 1
  /\ proc' = [cmd |-> cmd, pc |-> "catch", opened |-> FALSE, closed |-> FALSE,
              code |-> NULL]
  /\ UNCHANGED <<tz, time_entries, tasks, tasks_kimai, kimai, importVars,
                 extractVars, taskVars>>

\* a failed fetch that stores the pages it has read: one entry, as new
FetchEntriesFailsMut ==
  /\ pc = "idle" /\ ex_pc = "idle" /\ tk_pc = "idle"
  /\ faults < MaxFaults
  /\ faults' = faults + 1
  /\ proc' = Thrown(proc)
  /\ time_entries' =
       Append(time_entries,
              NewRow([id |-> Len(time_entries) + 1, spent_date |-> 10, client |-> NULL,
                      project |-> NULL, task |-> NULL, notes |-> NULL, hours |-> 0,
                      started_time |-> NULL, ended_time |-> NULL,
                      created_at |-> NULL], 0))
  /\ UNCHANGED <<tz, tasks, tasks_kimai, kimai, importVars, extractVars, taskVars>>

\* extract.js 27, 43-46: getTimeEntries throws, extractTimeEntries logs and
\* throws again; storeHarvestEntries is not called
FetchEntriesFails ==
  /\ pc = "idle" /\ ex_pc = "idle" /\ tk_pc = "idle"
  /\ faults < MaxFaults
  /\ faults' = faults + 1
  /\ proc' = Thrown(proc)
  /\ UNCHANGED <<tz, time_entries, tasks, tasks_kimai, kimai, importVars,
                 extractVars, taskVars>>

\* part_002 23, 68-71: getAllPendingEntries rejects, importTimeEntries logs
\* and throws again
ImportReadFails ==
  /\ pc = "idle" /\ ex_pc = "idle" /\ tk_pc = "idle"
  /\ faults < MaxFaults
  /\ faults' = faults + 1
  /\ proc' = Thrown(proc)
  /\ UNCHANGED <<tz, time_entries, tasks, tasks_kimai, kimai, importVars,
                 extractVars, taskVars>>

\* lines 87-89 / 133-135: the catch block logs and calls process.exit(1);
\* the process ends there, before any finally block
CatchExit ==
  /\ proc.pc = "catch"
  /\ proc' = Exit(proc, 1)
  /\ UNCHANGED <<tz, time_entries, tasks, tasks_kimai, kimai, faults, importVars,
                 extractVars, taskVars>>

\* lines 64 / 86, 90-96: harvest-extract leaves the try block; the finally
\* block closes the storage and calls process.exit(0)
ExtractFinally ==
  /\ proc.pc = "returned" /\ proc.cmd \in {"entries", "tasks"}
  /\ proc' = Exit(IF proc.opened THEN Close(proc) ELSE proc, 0)
  /\ UNCHANGED <<tz, time_entries, tasks, tasks_kimai, kimai, faults, importVars,
                 extractVars, taskVars>>

\* lines 131-132: kimai-import logs the count and calls process.exit(0)
ImportExit ==
  /\ proc.pc = "returned" /\ proc.cmd = "import"
  /\ proc' = Exit(proc, 0)
  /\ UNCHANGED <<tz, time_entries, tasks, tasks_kimai, kimai, faults, importVars,
                 extractVars, taskVars>>

-----------------------------------------------------------------------------
(* Inputs *)

Dev == <<"D", "e", "v">>
Ops == <<"O", "p", "s">>

\* an instant given as day, hour and minute, UTC
Instant(day, h, m) == day * MinutesPerDay + h * 60 + m

\* time zones of the machine: fixed offsets west of, at and east of UTC, and
\* a zone whose clocks go back one hour on day 11 at 01:00 UTC
West == [before |-> -300, after |-> -300, at |-> 0]
Utc == [before |-> 0, after |-> 0, at |-> 0]
East == [before |-> 120, after |-> 120, at |-> 0]
ClockChange == [before |-> 120, after |-> 60, at |-> Instant(11, 1, 0)]

TimeZones == <<Utc, West, East, ClockChange>>

\* a time entry as the source API returns it
HarvestEntry(id, date, task, notes, hours, created) ==
  [id |-> id, spent_date |-> date, client |-> << <<"c">> >>, project |-> NULL,
   task |-> <<task>>, notes |-> notes, hours |-> hours, started_time |-> NULL,
   ended_time |-> NULL, created_at |-> created]

RECURSIVE SeqsUpTo(_, _)
SeqsUpTo(S, n) ==
  IF n = 0 THEN {<<>>}
  ELSE LET shorter == SeqsUpTo(S, n - 1)
       IN shorter \cup {Append(s, x) : s \in {t \in shorter : Len(t) = n - 1}, x \in S}

\* the clock read by new Date() when an entry carries no created_at
Nows == {Instant(12, 8, 0)}

HarvestTask(id, name) == [id |-> id, name |-> name]

KimaiActivity(id, name, parentTitle, project) ==
  [id |-> id, name |-> name, parentTitle |-> parentTitle, project |-> project]

\* the task catalogs a fetch may return
TaskCatalogs ==
  { <<HarvestTask(1, Dev), HarvestTask(2, Ops)>>,
    <<HarvestTask(1, Dev), HarvestTask(2, Dev)>> }

\* the activity catalogs a fetch may return; an activity of project NULL is
\* a global activity
ActivityCatalogs ==
  { <<KimaiActivity(1, <<"d", "e", "v">>, NULL, <<1>>),
      KimaiActivity(2, Ops, NULL, NULL)>> }

IdleRun ==
  /\ proc = NoProcess
  /\ pc = "idle"
  /\ entries = <<>>
  /\ idx = 1
  /\ dateEndTimeMap = EmptyMap
  /\ imported = 0
  /\ failed = 0
  /\ pushed = <<>>
  /\ ex_pc = "idle"
  /\ ex_entries = <<>>
  /\ repeat = FALSE
  /\ storeResult = NoResult
  /\ existingEntries = <<>>
  /\ tk_pc = "idle"
  /\ fetchedTasks = <<>>
  /\ fetchedActivities = <<>>
  /\ matchResult = NoMatch
  /\ firstMatch = <<>>

Import ==
  \/ ImportNothing
  \/ ImportBegin
  \/ ImportSkip
  \/ ImportEntry
  \/ ImportPushFails
  \/ ImportMarkFails
  \/ ImportFinish

-----------------------------------------------------------------------------
(* The tool: any serial sequence of extraction, task-extraction and import  *)
(* invocations on an initially empty store                                  *)

\* the entries a fetch may return, one per invocation
FetchedEntries ==
  {HarvestEntry(id, 10, task, NULL, 120, <<Instant(10, 14, 0)>>) :
     id \in 1..MaxEntries, task \in {Dev, Ops}}

Init ==
  /\ tz = Utc
  /\ time_entries = <<>>
  /\ tasks = <<>>
  /\ tasks_kimai = <<>>
  /\ kimai = <<>>
  /\ faults = 0
  /\ IdleRun

Next ==
  \/ \E e \in FetchedEntries, failing \in SUBSET {1}, now \in Nows :
       ExtractTimeEntries(<<e>>, failing, now)
  \/ \E ts \in TaskCatalogs, as \in ActivityCatalogs : ExtractTasks(ts, as)
  \/ \E ts \in TaskCatalogs : ExtractTasksNoActivities(ts)
  \/ Import

Spec == Init /\ [][Next]_vars

-----------------------------------------------------------------------------
(* The transfer engine alone: import runs on a store of pending entries, in *)
(* every time zone                                                          *)

\* what distinguishes the stored entries: date, creation instant, duration
\* (in 1/120 h) and task
PendingSamples ==
  { [date |-> 10, created |-> Instant(10, 14, 0), hours |-> 120, task |-> Dev],
    [date |-> 10, created |-> Instant(10, 14, 30), hours |-> 89, task |-> Dev],
    [date |-> 10, created |-> Instant(9, 12, 0), hours |-> 120, task |-> Dev],
    [date |-> 11, created |-> Instant(11, 0, 30), hours |-> 120, task |-> Dev],
    [date |-> 11, created |-> Instant(12, 8, 0), hours |-> 0, task |-> Dev],
    [date |-> 10, created |-> Instant(12, 8, 0), hours |-> 120, task |-> Ops] }

\* the table after reconciling the entries s[1], s[2], ... one by one
PendingStore(s) ==
  [i \in 1..Len(s) |->
     NewRow(HarvestEntry(i, s[i].date, s[i].task, NULL, s[i].hours, <<s[i].created>>),
            Instant(12, 8, 0))]

PendingStores == {PendingStore(s) : s \in SeqsUpTo(PendingSamples, MaxEntries) \ {<<>>}}

\* the catalogs after a task extraction: Dev is mapped, Ops has an activity
\* but no project
StoredActivities ==
  StoreKimaiActivities(<<>>, <<KimaiActivity(1, <<"d", "e", "v">>, NULL, <<1>>),
                              KimaiActivity(2, Ops, NULL, NULL)>>, 1)

MatchedTasks ==
  LET stored == StoreTasks(<<>>, <<HarvestTask(1, Dev), HarvestTask(2, Ops)>>, 1)
  IN (CHOOSE r \in {MatchTasksWithActivities(stored, StoredActivities, order) :
                      order \in UpdateOrders(stored, StoredActivities)} : TRUE).table

InitTransform ==
  /\ \E i \in 1..Len(TimeZones) : tz = TimeZones[i]
  /\ time_entries \in PendingStores
  /\ tasks = MatchedTasks
  /\ tasks_kimai = StoredActivities
  /\ kimai = <<>>
  /\ faults = 0
  /\ IdleRun

NextTransform == Import

SpecTransform == InitTransform /\ [][NextTransform]_vars

-----------------------------------------------------------------------------
(* The entry reconciler alone: extraction invocations, each possibly        *)
(* followed by a second one that fetches the identical batch                *)

\* the entries a fetch may return: an entry's note may have been edited
ReconciledEntries ==
  {HarvestEntry(id, 10, Dev, notes, 120, <<Instant(10, 14, 0)>>) :
     id \in 1..MaxEntries, notes \in {NULL, << <<"n">> >>}}

Batches == SeqsUpTo(ReconciledEntries, MaxBatch)

NextReconcile ==
  \/ \E batch \in Batches : FetchEntries(batch)
  \/ \E failing \in SUBSET (1..MaxBatch), now \in Nows : StoreHarvestEntries(failing, now)
  \/ FetchEntriesAgain
  \/ ExtractReturn

SpecReconcile == Init /\ [][NextReconcile]_vars

-----------------------------------------------------------------------------
(* The task extraction alone, step by step: any serial sequence of runs of  *)
(* extractTasks on initially empty catalogs                                 *)

\* the lists getTasks may return: none; one task; two tasks of one
\* normalized name; two tasks of other names
FetchedTaskCatalogs ==
  { <<>>,
    <<HarvestTask(1, Dev)>>,
    <<HarvestTask(1, <<" ", "d", "e", "v", " ">>), HarvestTask(2, Dev)>>,
    <<HarvestTask(1, <<"D", " ", "e", "v">>),
      HarvestTask(2, <<"o", "p", "s", ":", " ", "d", "e", "v">>)>> }

\* the lists getActivities may return: none; one activity; two activities of
\* one normalized name, the second global; an activity with a parent label
\* and one no task is named after; one activity id twice
FetchedActivityCatalogs ==
  { <<>>,
    <<KimaiActivity(1, <<"d", "e", "v">>, NULL, <<1>>)>>,
    <<KimaiActivity(1, <<"d", "e", "v">>, NULL, <<1>>),
      KimaiActivity(2, <<"D", "E", "V", " ">>, NULL, NULL)>>,
    <<KimaiActivity(1, Dev, Ops, <<2>>), KimaiActivity(2, Ops, NULL, <<1>>)>>,
    <<KimaiActivity(1, <<"d", "e", "v">>, NULL, <<1>>),
      KimaiActivity(1, Dev, Ops, <<2>>)>> }

NextCatalog ==
  \/ \E ts \in FetchedTaskCatalogs : FetchTasks(ts)
  \/ \E as \in FetchedActivityCatalogs : FetchActivities(as)
  \/ FetchActivitiesFails
  \/ \E order \in UpdateOrders(tasks, tasks_kimai) : Match(order)
  \/ \E order \in UpdateOrders(tasks, tasks_kimai) : MatchAgain(order)
  \/ TasksReturn
  \/ TasksExit

SpecCatalog == Init /\ [][NextCatalog]_vars

-----------------------------------------------------------------------------
(* The classification alone: extraction invocations of one entry each, the  *)
(* entry with any one field edited or missing                               *)

\* an entry with every field present
FullEntry ==
  [id |-> 1, spent_date |-> 10, client |-> << <<"c">> >>, project |-> << <<"p">> >>,
   task |-> <<Dev>>, notes |-> << <<"n">> >>, hours |-> 120,
   started_time |-> <<"9">>, ended_time |-> <<"1", "0">>,
   created_at |-> <<Instant(10, 14, 0)>>]

\* the entry, the entry with one field edited, with one object or the note
\* missing or empty, with all of them missing, and an entry of another id
ClassifiedEntries ==
  { FullEntry,
    [FullEntry EXCEPT !.spent_date = 11],
    [FullEntry EXCEPT !.client = << <<"d">> >>],
    [FullEntry EXCEPT !.project = << <<"q">> >>],
    [FullEntry EXCEPT !.task = <<Ops>>],
    [FullEntry EXCEPT !.notes = << <<"m">> >>],
    [FullEntry EXCEPT !.hours = 89],
    [FullEntry EXCEPT !.started_time = <<"8">>],
    [FullEntry EXCEPT !.ended_time = <<"1", "1">>],
    [FullEntry EXCEPT !.client = NULL],
    [FullEntry EXCEPT !.client = <<NULL>>],
    [FullEntry EXCEPT !.project = NULL],
    [FullEntry EXCEPT !.task = NULL],
    [FullEntry EXCEPT !.notes = NULL],
    [FullEntry EXCEPT !.notes = <<NULL>>],
    [FullEntry EXCEPT !.started_time = NULL, !.ended_time = NULL],
    [FullEntry EXCEPT !.client = NULL, !.project = NULL, !.task = NULL,
                      !.notes = NULL],
    [FullEntry EXCEPT !.client = <<NULL>>, !.project = <<NULL>>, !.task = <<NULL>>,
                      !.notes = <<NULL>>],
    [FullEntry EXCEPT !.id = 2] }

NextClassify ==
  \/ \E e \in ClassifiedEntries : FetchEntries(<<e>>)
  \/ \E failing \in SUBSET {1}, now \in Nows : StoreHarvestEntries(failing, now)
  \/ ExtractReturn

SpecClassify == Init /\ [][NextClassify]_vars

-----------------------------------------------------------------------------
(* The commands as processes, one after the other on one store *)

\* the entries a fetch of the process may return: two entries of task Dev
ProcessEntries ==
  {HarvestEntry(id, 10, Dev, NULL, 120, <<Instant(10, 14, 0)>>) : id \in {1, 2}}

NextProcess ==
  \/ \E cmd \in Commands : Construct(cmd)
  \/ \E cmd \in Commands : ConstructFails(cmd)
  \/ \E e \in ProcessEntries : Running("entries") /\ FetchEntries(<<e>>)
  \/ Running("entries") /\ FetchEntriesFails
  \/ \E failing \in SUBSET {1}, now \in Nows : StoreHarvestEntries(failing, now)
  \/ ExtractReturn
  \/ \E ts \in TaskCatalogs : Running("tasks") /\ FetchTasks(ts)
  \/ \E as \in ActivityCatalogs \cup {<<>>} : FetchActivities(as)
  \/ FetchActivitiesFails
  \/ \E order \in UpdateOrders(tasks, tasks_kimai) : Match(order)
  \/ TasksReturn
  \/ TasksExit
  \/ Running("import") /\ ImportNothing
  \/ Running("import") /\ ImportBegin
  \/ Running("import") /\ ImportReadFails
  \/ ImportSkip
  \/ ImportEntry
  \/ ImportPushFails
  \/ ImportMarkFails
  \/ ImportFinish
  \/ CatchExit
  \/ ExtractFinally
  \/ ImportExit

SpecProcess == Init /\ [][NextProcess]_vars

-----------------------------------------------------------------------------
(* Two extraction invocations on one store: the one that is followed step   *)
(* by step, and another that runs between its SELECT and its writes         *)

\* the followed invocation fetches no entry, one or two
InterleavedBatches ==
  {<<>>} \cup {<<e>> : e \in ReconciledEntries}
    \cup {<<e, f>> : e, f \in ReconciledEntries}

NextInterleaved ==
  \/ \E batch \in InterleavedBatches : FetchEntries(batch)
  \/ ReadExisting
  \/ \E e \in ReconciledEntries, now \in Nows : ConcurrentExtract(<<e>>, now)
  \/ \E failing \in SUBSET (1..MaxBatch), now \in Nows : WriteEntries(failing, now)
  \/ ExtractReturn

SpecInterleaved == Init /\ [][NextInterleaved]_vars

-----------------------------------------------------------------------------
(* Properties *)

\* the calendar day of an instant in UTC
UTCDay(t) == t \div MinutesPerDay

\* two non-empty half-open intervals [begin, end) share an instant
Overlap(a, b) ==
  a.begin < a.end /\ b.begin < b.end /\ a.begin < b.end /\ b.begin < a.end

\* the call's entry has no creation instant on its own date, read in UTC
\* or in local time
NoCreationOnOwnDate(c) ==
  \/ c.created_at = NULL
  \/ /\ UTCDay(c.created_at[1]) # c.date
     /\ LocalDay(tz, c.created_at[1]) # c.date

\* the call's entry was created on its own date, read in UTC and in local time
CreatedOnOwnDate(c) ==
  /\ c.created_at # NULL
  /\ UTCDay(c.created_at[1]) = c.date
  /\ LocalDay(tz, c.created_at[1]) = c.date

\* C1: within one import run, the intervals [begin, end) of two distinct
\* entries of the same date that the destination accepted do not overlap.
C1_NoOverlapOnADate ==
  \A i, j \in 1..Len(pushed) :
    (/\ i # j
     /\ pushed[i].ok /\ pushed[j].ok
     /\ pushed[i].harvest_id # pushed[j].harvest_id
     /\ pushed[i].date = pushed[j].date)
    => ~Overlap(pushed[i], pushed[j])

\* the timesheets created from source entry h
TimesheetsOf(ks, h) == {k \in 1..Len(ks) : ks[k].harvest_id = h}

\* C2: once a row has imported = 1, no step sets it back to 0, no import run
\* selects it, and no timesheet is created or attempted for it again.
C2_ImportedIsFinal ==
  [][\A i \in 1..Len(time_entries) :
       time_entries[i].imported = 1 =>
         LET h == time_entries[i].harvest_id
         IN /\ i <= Len(time_entries')
            /\ time_entries'[i].harvest_id = h
            /\ time_entries'[i].imported = 1
            /\ TimesheetsOf(kimai', h) = TimesheetsOf(kimai, h)
            /\ (pushed' # pushed /\ pushed' # <<>>
                  => pushed'[Len(pushed')].harvest_id # h)
            /\ (entries' # entries
                  => \A k \in 1..Len(entries') : entries'[k].harvest_id # h)]_vars

\* C2 witness: an entry imported as Dev was reclassified as changed (its task
\* is now Ops) and a later import run has gone through its whole list.
C2_Witness ==
  /\ pc = "loop" /\ idx > Len(entries) /\ Len(pushed) > 0
  /\ \E i \in 1..Len(time_entries) :
       time_entries[i].imported = 1 /\ time_entries[i].task = Ops

\* no task row joined to the entry carries both destination ids
Unmapped(row) ==
  \A t \in 1..Len(tasks) :
    tasks[t].name = row.task =>
      ~Truthy(tasks[t].kimai_project_id) \/ ~Truthy(tasks[t].kimai_activity_id)

\* C3: during an import run, a pending row whose mapping is missing is
\* passed over without any write, and an entry none of whose joined rows is
\* mapped gets no timesheet, no push attempt, and keeps imported and kimai_id.
C3_UnmappedUntouched ==
  [][pc = "loop" =>
       /\ (idx <= Len(entries) /\ MissingMapping(entries[idx]))
            => (time_entries' = time_entries /\ kimai' = kimai /\ pushed' = pushed)
       /\ \A i \in 1..Len(time_entries) :
            Unmapped(time_entries[i]) =>
              LET h == time_entries[i].harvest_id
              IN /\ time_entries'[i].imported = time_entries[i].imported
                 /\ time_entries'[i].kimai_id = time_entries[i].kimai_id
                 /\ TimesheetsOf(kimai', h) = TimesheetsOf(kimai, h)
                 /\ (pushed' # pushed /\ pushed' # <<>>
                       => pushed'[Len(pushed')].harvest_id # h)]_vars

\* C3 witness: a run has imported one entry and passed over another whose
\* task has an activity but no project; that entry is still pending.
C3_Witness ==
  /\ pc = "loop" /\ idx > Len(entries) /\ imported = 1
  /\ \E k \in 1..Len(entries) :
       /\ ~Truthy(entries[k].kimai_project_id)
       /\ Truthy(entries[k].kimai_activity_id)
       /\ Unmapped(time_entries[entries[k].rowid])
       /\ time_entries[entries[k].rowid].imported = 0
       /\ time_entries[entries[k].rowid].kimai_id = NULL

\* C4: when storeHarvestEntries has resolved, inserted + updated + unchanged
\* plus the rows whose write failed is the size of the batch.
C4_EveryRowCounted ==
  ex_pc = "stored" =>
    storeResult.inserted + storeResult.updated + storeResult.unchanged
      + storeResult.errors = Len(ex_entries)

\* C4 witness: a batch of which one row was inserted and one row failed.
C4_Witness ==
  /\ ex_pc = "stored"
  /\ storeResult.inserted = 1
  /\ storeResult.errors = 1
  /\ Len(ex_entries) = 2

NoConflict(batch) ==
  \A i, j \in 1..Len(batch) : batch[i].id = batch[j].id => batch[i] = batch[j]

C6_ChainedBegin ==
  \A i \in 1..Len(pushed) :
    (NoCreationOnOwnDate(pushed[i]) /\ pushed[i].chained # NULL)
    => pushed[i].begin = pushed[i].chained[1]

\* C7: an entry created on its own date begins at exactly its creation
\* instant, in every time zone.
C7_BeginIsCreation ==
  \A i \in 1..Len(pushed) :
    CreatedOnOwnDate(pushed[i]) => pushed[i].begin = pushed[i].created_at[1]

\* C8: the first entry of its date in the run, without creation instant on
\* its own date, begins at 09:00 local time on its own date, in every zone.
C8_NineOClockOnOwnDate ==
  \A i \in 1..Len(pushed) :
    (NoCreationOnOwnDate(pushed[i]) /\ pushed[i].chained = NULL)
    => LocalTime(tz, pushed[i].begin) = pushed[i].date * MinutesPerDay + 9 * 60

\* C9: end - begin is the whole number of minutes nearest to hours * 60; it
\* is 0 for a zero duration and never negative.
C9_EndIsBeginPlusMinutes ==
  \A i \in 1..Len(pushed) :
    LET minutes == pushed[i].end - pushed[i].begin
    IN /\ 2 * minutes - pushed[i].hours \in -1..1
       /\ (pushed[i].hours = 0 => minutes = 0)
       /\ minutes >= 0

\* C10: the createTimesheet calls of a run are in nondecreasing order of
\* date, and calls of equal date are in the order of the store's rows.
C10_PushOrder ==
  \A i, j \in 1..Len(pushed) :
    i < j =>
      /\ pushed[i].date <= pushed[j].date
      /\ (pushed[i].date = pushed[j].date => pushed[i].rowid <= pushed[j].rowid)

\* C10 witness: the store returned the later date first and the run pushed
\* the earlier date first.
C10_Witness ==
  /\ Len(pushed) >= 2
  /\ pushed[1].rowid = 2 /\ pushed[2].rowid = 1
  /\ pushed[1].date < pushed[2].date

-----------------------------------------------------------------------------
(* Error handling of the import run, store invariants *)

\* the rows of the run's list before position k that the skip test passes over
SkippedBefore(k) == {j \in 1..(k - 1) : MissingMapping(entries[j])}

\* the entries of the run's list that are marked imported in the store
MarkedByRun ==
  {entries[j].harvest_id : j \in {x \in 1..Len(entries) :
     time_entries[entries[x].rowid].imported = 1}}

\* C11: at every point of an import run, failures included, every row of the
\* list before the loop's position is exactly one of imported, failed or
\* skipped, each non-skipped row was pushed, and the counter the run returns
\* is the number of entries the run marked imported; a failure moves the
\* loop on by one row only.
C11_FailureIsolated ==
  pc = "loop" =>
    /\ idx <= Len(entries) + 1
    /\ imported + failed + Cardinality(SkippedBefore(idx)) = idx - 1
    /\ Len(pushed) = imported + failed
    /\ imported = Cardinality(MarkedByRun)

\* C11 witness: the push or the marking of the first of two entries failed,
\* the second was imported, and the loop is over.
C11_Witness ==
  /\ pc = "loop" /\ idx > Len(entries) /\ Len(pushed) = 2
  /\ failed = 1 /\ imported = 1
  /\ time_entries[pushed[1].rowid].imported = 0
  /\ time_entries[pushed[2].rowid].imported = 1

\* C12: after every step, every row with imported = 1 has a kimai_id, and a
\* row that had imported = 1 keeps the kimai_id it had.
C12_ImportedHasKimaiId ==
  [][\A i \in 1..Len(time_entries') :
       /\ time_entries'[i].imported = 1 => time_entries'[i].kimai_id # NULL
       /\ (i <= Len(time_entries) /\ time_entries[i].imported = 1)
            => time_entries'[i].kimai_id = time_entries[i].kimai_id]_vars

\* C12 witness: two entries imported with different destination ids, one of
\* them updated by a later reconciliation (its task is now Ops).
C12_Witness ==
  /\ pc = "idle"
  /\ \E i, j \in 1..Len(time_entries) :
       /\ time_entries[i].imported = 1 /\ time_entries[j].imported = 1
       /\ time_entries[i].kimai_id # NULL /\ time_entries[j].kimai_id # NULL
       /\ time_entries[i].kimai_id # time_entries[j].kimai_id
       /\ time_entries[i].task = Ops

\* C13: the store never holds two time-entry rows with one source id.
C13_OneRowPerSourceId ==
  \A i, j \in 1..Len(time_entries) :
    time_entries[i].harvest_id = time_entries[j].harvest_id => i = j

\* C13 witness: of two entries the call had classified as new, one was
\* inserted by the other invocation before the call's own insert, which was
\* rejected.
C13_Witness ==
  /\ ex_pc = "stored" /\ faults = 0
  /\ Len(ex_entries) = 2
  /\ ex_entries[1].id # ex_entries[2].id
  /\ storeResult.errors = 1 /\ storeResult.inserted = 1

-----------------------------------------------------------------------------
(* The reconciler on a store that imports have marked: extraction           *)
(* invocations whose batches edit entries already stored, task extractions  *)
(* and import runs                                                          *)

\* the two entries of the source: as first entered, and with every field
\* edited
EditedEntries ==
  UNION {{HarvestEntry(id, 10, Dev, NULL, 120, <<Instant(9, 12, 0)>>),
          [HarvestEntry(id, 11, Ops, << <<"n">> >>, 89, <<Instant(10, 14, 0)>>)
             EXCEPT !.client = NULL, !.project = << <<"p">> >>,
                    !.started_time = <<"9">>, !.ended_time = <<"1", "0">>]} :
         id \in {1, 2}}

\* a fetch returns one entry or two
EditedBatches ==
  {<<e>> : e \in EditedEntries} \cup {<<e, f>> : e, f \in EditedEntries}

NextUpdate ==
  \/ \E batch \in EditedBatches : FetchEntries(batch)
  \/ \E failing \in SUBSET (1..MaxBatch), now \in Nows : StoreHarvestEntries(failing, now)
  \/ ExtractReturn
  \/ \E as \in ActivityCatalogs :
       ExtractTasks(<<HarvestTask(1, Dev), HarvestTask(2, Ops)>>, as)
  \/ Import

SpecUpdate == Init /\ [][NextUpdate]_vars

-----------------------------------------------------------------------------
(* The catalogs and the matching step *)

\* the destination mapping a task row carries
MappingOf(row) ==
  <<row.kimai_project_id, row.kimai_activity_id, row.kimai_activity_name>>

\* C14: when matchTasksWithActivities has run a second time on the same
\* catalogs, every task carries the project id, activity id and activity
\* name the first run left on it.
C14_MatchingIdempotent ==
  tk_pc = "rematched" =>
    /\ Len(tasks) = Len(firstMatch)
    /\ \A i \in 1..Len(tasks) : MappingOf(tasks[i]) = MappingOf(firstMatch[i])

\* a name without its leading and trailing blanks
Core(name) ==
  LET inked == {i \in 1..Len(name) : name[i] # " "}
      first == CHOOSE i \in inked : \A j \in inked : i <= j
      last == CHOOSE i \in inked : \A j \in inked : j <= i
  IN IF inked = {} THEN <<>> ELSE SubSeq(name, first, last)

\* the capital and the small form of the letters of the catalogs
Cases ==
  {<<"D", "d">>, <<"E", "e">>, <<"V", "v">>, <<"O", "o">>, <<"P", "p">>, <<"S", "s">>}

\* one character, but for its case
SameLetter(c, d) == c = d \/ <<c, d>> \in Cases \/ <<d, c>> \in Cases

\* two names equal after trimming and case folding
SameName(a, b) ==
  /\ Len(Core(a)) = Len(Core(b))
  /\ \A i \in 1..Len(Core(a)) : SameLetter(Core(a)[i], Core(b)[i])

\* C15: after the matching step, the test of the step holds of a task and a
\* stored activity exactly when their names are equal after trimming and
\* case folding; a task carries the name of an activity only if the two are
\* so equal, and every activity that has a task so named is written on one.
C15_MatchIffSameName ==
  tk_pc = "matched" =>
    /\ \A t \in 1..Len(tasks), a \in 1..Len(tasks_kimai) :
         NamesMatch(tasks[t], tasks_kimai[a])
           <=> SameName(tasks[t].name, tasks_kimai[a].task_name)
    /\ \A t \in 1..Len(tasks) :
         tasks[t].kimai_activity_name # NULL
           => SameName(tasks[t].name, tasks[t].kimai_activity_name[1])
    /\ \A a \in 1..Len(tasks_kimai) :
         (\E t \in 1..Len(tasks) : SameName(tasks[t].name, tasks_kimai[a].task_name))
           => \E t \in 1..Len(tasks) :
                /\ SameName(tasks[t].name, tasks_kimai[a].task_name)
                /\ tasks[t].kimai_activity_name # NULL

\* C15 witness: the matching step has left the mapping of the activity
\* "DEV " on a task named " dev ".
C15_Witness ==
  /\ tk_pc = "matched"
  /\ \E t \in 1..Len(tasks) :
       /\ tasks[t].name = <<" ", "d", "e", "v", " ">>
       /\ tasks[t].kimai_activity_id = <<2>>
       /\ tasks[t].kimai_activity_name = << <<"D", "E", "V", " ">> >>

\* the display name and the parent label the claim gives an activity
DisplayName(activity) ==
  IF activity.parentTitle # NULL /\ activity.parentTitle # <<>>
  THEN activity.parentTitle \o <<":", " ">> \o activity.name
  ELSE activity.name

\* C16: every stored activity row has the display name "<parent>: <name>"
\* when the fetched activity has a non-empty parent label and the bare name
\* otherwise, and holds the parent label, empty when absent, in parent_title.
C16_DisplayName ==
  (tk_pc \in {"activities", "matched", "rematched"}) =>
    /\ Len(tasks_kimai) = Len(fetchedActivities)
    /\ \A k \in 1..Len(fetchedActivities) :
         /\ tasks_kimai[k].task_name = DisplayName(fetchedActivities[k])
         /\ tasks_kimai[k].parent_title =
              (IF fetchedActivities[k].parentTitle = NULL THEN <<>>
               ELSE fetchedActivities[k].parentTitle)

\* C16 witness: an activity with parent label Ops and name Dev is stored as
\* "Ops: Dev" next to an activity without parent.
C16_Witness ==
  /\ tk_pc = "activities"
  /\ Len(tasks_kimai) = 2
  /\ tasks_kimai[1].task_name = <<"O", "p", "s", ":", " ", "D", "e", "v">>
  /\ tasks_kimai[1].parent_title = Ops
  /\ tasks_kimai[2].task_name = Ops
  /\ tasks_kimai[2].parent_title = <<>>

\* the task rows that carry a mapping
Mapped == {t \in 1..Len(tasks) : tasks[t].kimai_activity_id # NULL}

\* C17: when the matching step has resolved, unmatched is the number of
\* tasks less the number of tasks that carry a mapping, matched + unmatched
\* is the number of tasks, matched is at most that number and unmatched is
\* not negative.
C17_MatchCounts ==
  (tk_pc \in {"matched", "rematched"}) =>
    /\ matchResult.unmatched = Len(tasks) - Cardinality(Mapped)
    /\ matchResult.matched + matchResult.unmatched = Len(tasks)
    /\ matchResult.matched <= Len(tasks)
    /\ matchResult.unmatched >= 0

\* the source ids and names of the task rows, and of a fetched list
TaskRows(tbl) == [i \in 1..Len(tbl) |-> <<tbl[i].harvest_id, tbl[i].name>>]
TaskList(ts) == [i \in 1..Len(ts) |-> <<ts[i].id, ts[i].name>>]

\* the destination ids of the activity rows, and of a fetched list
ActivityRows(tbl) == [i \in 1..Len(tbl) |-> tbl[i].kimai_activity_id]
ActivityList(as) == [i \in 1..Len(as) |-> <<as[i].id>>]

\* C18: when a run of extractTasks has returned, table tasks holds exactly
\* the tasks its fetch returned and, when the run has fetched activities,
\* table tasks_kimai holds exactly the activities that fetch returned.
C18_FreshSnapshot ==
  tk_pc = "returned" =>
    /\ TaskRows(tasks) = TaskList(fetchedTasks)
    /\ fetchedTasks # <<>> => ActivityRows(tasks_kimai) = ActivityList(fetchedActivities)

\* C19: after storeKimaiActivities, table tasks_kimai holds at most one row
\* per destination activity id.
C19_OneRowPerActivity ==
  (tk_pc \in {"activities", "matched", "rematched"}) =>
    \A i, j \in 1..Len(tasks_kimai) :
      tasks_kimai[i].kimai_activity_id = tasks_kimai[j].kimai_activity_id => i = j

-----------------------------------------------------------------------------
(* The update in place *)

\* the name of a fetched object, empty when the object is missing
Label(obj) == IF obj = NULL THEN <<>> ELSE obj[1]

\* the eight compared fields as an entry of the batch gives them
FetchedFields(entry) ==
  [date |-> entry.spent_date, client |-> Label(entry.client),
   project |-> Label(entry.project), task |-> Label(entry.task),
   notes |-> (IF entry.notes = NULL THEN <<>> ELSE entry.notes[1]),
   hours |-> entry.hours,
   started_time |-> entry.started_time, ended_time |-> entry.ended_time]

\* the eight compared fields of a row
StoredFields(row) ==
  [date |-> row.date, client |-> row.client, project |-> row.project,
   task |-> row.task, notes |-> row.notes, hours |-> row.hours,
   started_time |-> row.started_time, ended_time |-> row.ended_time]

\* the positions of the batch that hold a changed version of the row
ChangedFor(row, batch) ==
  {p \in 1..Len(batch) :
     batch[p].id = row.harvest_id /\ FetchedFields(batch[p]) # StoredFields(row)}

\* the last position of a non-empty set of positions
Last(P) == CHOOSE p \in P : \A q \in P : q <= p

\* C20: a call of storeHarvestEntries in which no write fails leaves every
\* row at its place; a row of which the batch holds a changed version ends
\* with the eight compared fields of the last such version and with its
\* imported flag, destination id, creation timestamp and source id as
\* before; every other row that was in the table is as before.
C20_UpdateInPlace ==
  [][(ex_pc = "fetched" /\ ex_pc' = "stored" /\ faults' = faults) =>
       /\ Len(time_entries') >= Len(time_entries)
       /\ \A r \in 1..Len(time_entries) :
            LET row == time_entries[r]
                changed == ChangedFor(row, ex_entries)
            IN IF changed = {}
               THEN time_entries'[r] = row
               ELSE /\ StoredFields(time_entries'[r]) =
                         FetchedFields(ex_entries[Last(changed)])
                    /\ time_entries'[r].imported = row.imported
                    /\ time_entries'[r].kimai_id = row.kimai_id
                    /\ time_entries'[r].created_at = row.created_at
                    /\ time_entries'[r].harvest_id = row.harvest_id]_vars

\* C20 witness: a call has updated one row; the row is marked imported with
\* a destination id, holds the edited fields of the batch and a creation
\* timestamp other than the batch's; the other row, of a source id that is
\* not in the batch, is marked imported and holds the fields as first entered.
C20_Witness ==
  /\ ex_pc = "stored"
  /\ storeResult = [inserted |-> 0, updated |-> 1, unchanged |-> 0, errors |-> 0]
  /\ Len(ex_entries) = 1
  /\ Len(time_entries) = 2
  /\ \E r, o \in 1..2 :
       /\ time_entries[r].harvest_id = ex_entries[1].id
       /\ time_entries[r].imported = 1
       /\ time_entries[r].kimai_id # NULL
       /\ StoredFields(time_entries[r]) = FetchedFields(ex_entries[1])
       /\ time_entries[r].task = Ops
       /\ time_entries[r].created_at # ex_entries[1].created_at
       /\ time_entries[o].harvest_id # ex_entries[1].id
       /\ time_entries[o].imported = 1
       /\ time_entries[o].task = Dev

-----------------------------------------------------------------------------
(* Row failures in the reconciler *)

\* the positions of the batch whose entry no row of the table holds
Unreflected(te, batch) ==
  {p \in 1..Len(batch) :
     ~\E r \in 1..Len(te) :
        /\ te[r].harvest_id = batch[p].id
        /\ StoredFields(te[r]) = FetchedFields(batch[p])}

\* C21: a call of storeHarvestEntries in which row writes fail still
\* resolves; on a batch that holds no source id with two different sets of
\* field values it counts at least one error for every failed write and
\* ends with every entry of the batch in the table but for at most as many
\* as writes have failed.
C21_RowFailureIsolated ==
  [][(ex_pc = "fetched" /\ ex_pc' # "fetched" /\ NoConflict(ex_entries)) =>
       /\ ex_pc' = "stored"
       /\ storeResult'.errors >= faults' - faults
       /\ Cardinality(Unreflected(time_entries', ex_entries)) <= faults' - faults
       /\ storeResult'.inserted + storeResult'.updated + storeResult'.unchanged
            + storeResult'.errors = Len(ex_entries)]_vars

\* C21 witness: of a batch of two edited entries the update of one has
\* failed and the other row holds the note of the batch.
C21_Witness ==
  /\ ex_pc = "stored" /\ faults = 1
  /\ Len(ex_entries) = 2
  /\ ex_entries[1].id # ex_entries[2].id
  /\ storeResult = [inserted |-> 0, updated |-> 1, unchanged |-> 0, errors |-> 1]
  /\ Cardinality(Unreflected(time_entries, ex_entries)) = 1
  /\ \E r \in 1..Len(time_entries) : time_entries[r].notes = <<"n">>

-----------------------------------------------------------------------------
(* The end of the process *)

\* C22: a command process that has constructed its Storage has called
\* Storage.close by the time it has exited, whatever its exit code.
C22_CloseBeforeExit ==
  (proc.pc = "exited" /\ proc.opened) => proc.closed

\* C23: when getTimeEntries throws, storeHarvestEntries is not called and
\* the process goes through the catch block to exit code 1 with table
\* time_entries as it was before the run.
C23_FetchFailureWritesNothing ==
  [][/\ (Running("entries") /\ ex_pc = "idle" /\ proc'.pc = "catch") =>
          (time_entries' = time_entries /\ ex_pc' = "idle")
     /\ (proc.cmd = "entries" /\ proc.pc = "catch") =>
          (time_entries' = time_entries /\ ex_pc' = "idle" /\ proc'.pc = "exited"
             /\ proc'.code = <<1>>)]_vars

\* C23 witness: an extraction process whose fetch failed has exited with
\* code 1 on a store that holds an imported row and a pending row of
\* earlier runs.
C23_Witness ==
  /\ proc.cmd = "entries" /\ proc.pc = "exited" /\ proc.code = <<1>> /\ proc.opened
  /\ Len(time_entries) = 2
  /\ time_entries[1].imported = 1
  /\ time_entries[2].imported = 0

-----------------------------------------------------------------------------
(* The classification *)

\* what the call resolves when it holds one entry of the given kind
CountOf(kind) ==
  [inserted |-> IF kind = "new" THEN 1 ELSE 0,
   updated |-> IF kind = "changed" THEN 1 ELSE 0,
   unchanged |-> IF kind = "unchanged" THEN 1 ELSE 0,
   errors |-> 0]

\* C24: a call of storeHarvestEntries on one entry, no write failing, treats
\* the entry as new when no row has its source id, as changed when a row
\* has it and one of the eight compared fields differs from the entry's,
\* a missing client, project or task object and a missing note standing for
\* the empty string, and as unchanged otherwise.
C24_Classification ==
  [][(ex_pc = "fetched" /\ ex_pc' = "stored" /\ faults' = faults
        /\ Len(ex_entries) = 1) =>
       LET e == ex_entries[1]
           rows == {r \in 1..Len(time_entries) : time_entries[r].harvest_id = e.id}
           differs == \E r \in rows :
                        StoredFields(time_entries[r]) # FetchedFields(e)
       IN storeResult' = CountOf(IF rows = {} THEN "new"
                                 ELSE IF differs THEN "changed"
                                 ELSE "unchanged")]_vars

\* C24 witness: an entry without client, project, task and note has been
\* found unchanged against its row, which holds four empty strings.
C24_Witness ==
  /\ ex_pc = "stored"
  /\ Len(ex_entries) = 1
  /\ ex_entries[1].client = NULL /\ ex_entries[1].project = NULL
  /\ ex_entries[1].task = NULL /\ ex_entries[1].notes = NULL
  /\ storeResult = CountOf("unchanged")
  /\ \E r \in 1..Len(time_entries) :
       /\ time_entries[r].harvest_id = ex_entries[1].id
       /\ time_entries[r].client = <<>> /\ time_entries[r].project = <<>>
       /\ time_entries[r].task = <<>> /\ time_entries[r].notes = <<>>

-----------------------------------------------------------------------------
(* Tasks of one name *)

\* the stored activities a fetched task is named after
NamedAfter(task) ==
  {a \in 1..Len(tasks_kimai) : SameName(task.name, tasks_kimai[a].task_name)}

\* the mapping an activity row gives a task
MappingFrom(activity) ==
  <<activity.kimai_project_id, activity.kimai_activity_id, <<activity.task_name>>>>

\* C25: after the matching step, a fetched task that is the first of its
\* normalized name in the catalog and is named after some stored activity
\* carries the project id, activity id and display name of one such
\* activity; every other task carries no mapping.
C25_FirstOfGroupMapped ==
  (tk_pc \in {"matched", "rematched"}) =>
    \A i \in 1..Len(fetchedTasks) :
      \A t \in 1..Len(tasks) :
        tasks[t].harvest_id = fetchedTasks[i].id =>
          IF /\ \A j \in 1..(i - 1) :
                  ~SameName(fetchedTasks[j].name, fetchedTasks[i].name)
             /\ NamedAfter(fetchedTasks[i]) # {}
          THEN \E a \in NamedAfter(fetchedTasks[i]) :
                 MappingOf(tasks[t]) = MappingFrom(tasks_kimai[a])
          ELSE MappingOf(tasks[t]) = <<NULL, NULL, NULL>>

\* C25 witness: of the tasks " dev " and "Dev" and the activities "dev" and
\* "DEV " the matching step has mapped the first task and not the second.
C25_Witness ==
  /\ tk_pc = "matched"
  /\ Len(tasks) = 2 /\ Len(tasks_kimai) = 2
  /\ SameName(tasks[1].name, tasks[2].name)
  /\ NamedAfter(fetchedTasks[1]) = {1, 2}
  /\ tasks[1].kimai_activity_id # NULL
  /\ MappingOf(tasks[2]) = <<NULL, NULL, NULL>>

-----------------------------------------------------------------------------
(* The per-date map *)

\* the calls of the run whose entry is of date d
DerivedOn(d) == {k \in 1..Len(pushed) : pushed[k].date = d}

\* C26: at every point of an import run, the map holds for each of its
\* dates the maximum of the end times derived so far for the entries of
\* that date.
C26_MapIsLatestEnd ==
  pc = "loop" =>
    \A d \in DOMAIN dateEndTimeMap :
      /\ \A k \in DerivedOn(d) : pushed[k].end <= dateEndTimeMap[d]
      /\ \E k \in DerivedOn(d) : pushed[k].end = dateEndTimeMap[d]

\* the begin/end pairs and the map that the entries list[1..n] give when
\* every mapped entry is transformed in turn, whatever becomes of its push
RECURSIVE DerivedUpTo(_, _, _)
DerivedUpTo(z, list, n) ==
  IF n = 0 THEN [pairs |-> <<>>, map |-> EmptyMap]
  ELSE LET before == DerivedUpTo(z, list, n - 1)
           entry == list[n]
           t == TransformEntry(z, entry, before.map)
       IN IF entry.kimai_project_id = NULL \/ entry.kimai_activity_id = NULL
          THEN before
          ELSE [pairs |-> Append(before.pairs, <<t.kimaiEntry.begin, t.kimaiEntry.end>>),
                map |-> t.map]

\* C27: at every point of an import run, the begin/end pairs derived so far
\* and the per-date map are those that the pending list alone determines,
\* whichever pushes have failed; and the step over an entry without mapping
\* leaves the map as it is.
C27_DerivationIgnoresOutcomes ==
  [][/\ pc' = "loop" =>
          LET d == DerivedUpTo(tz', entries', idx' - 1)
          IN /\ dateEndTimeMap' = d.map
             /\ [k \in 1..Len(pushed') |-> <<pushed'[k].begin, pushed'[k].end>>] = d.pairs
     /\ (pc = "loop" /\ pc' = "loop" /\ idx' = idx + 1
          /\ (entries[idx].kimai_project_id = NULL
                \/ entries[idx].kimai_activity_id = NULL)) =>
          dateEndTimeMap' = dateEndTimeMap]_vars

\* C27 witness: the push of the first entry of a date has failed and the
\* second entry of the date begins at the end derived for the first.
C27_Witness ==
  /\ pc = "loop"
  /\ Len(pushed) = 2
  /\ ~pushed[1].ok
  /\ pushed[2].date = pushed[1].date
  /\ pushed[2].chained = <<pushed[1].end>>
  /\ pushed[2].begin = pushed[1].end
  /\ pushed[2].end > pushed[2].begin

-----------------------------------------------------------------------------
(* Submissions *)

\* C28: within one import run no row of time_entries is submitted to the
\* destination twice, also when the join has listed the row once for each
\* of several task rows of its task's name.
C28_SubmittedOncePerRun ==
  pc = "loop" =>
    \A j, k \in 1..Len(pushed) : pushed[j].rowid = pushed[k].rowid => j = k

\* C28 witness: the pending list holds one row twice, joined to two task
\* rows of one name; the run is past both and has submitted the row once.
C28_Witness ==
  /\ pc = "loop"
  /\ Len(entries) = 2
  /\ entries[1].rowid = entries[2].rowid
  /\ idx = 3
  /\ Len(pushed) = 1
  /\ pushed[1].ok

\* C29: over any sequence of import runs, the destination holds at most
\* one timesheet per source entry.
C29_CreatedOnce ==
  \A j, k \in 1..Len(kimai) : kimai[j].harvest_id = kimai[k].harvest_id => j = k

-----------------------------------------------------------------------------
(* The incomplete task extraction *)

\* C30: a run of extractTasks that stores the tasks and then ends without
\* matching, its activity fetch having failed or returned nothing, leaves
\* on every task row the mapping the row of that source id had before.
C30_IncompleteRunKeepsMapping ==
  [][(\E ts \in TaskCatalogs : ExtractTasksNoActivities(ts)) =>
       \A i \in 1..Len(tasks) :
         \E j \in 1..Len(tasks') :
           /\ tasks'[j].harvest_id = tasks[i].harvest_id
           /\ MappingOf(tasks'[j]) = MappingOf(tasks[i])]_vars

====
